---- MODULE Spec2Model ----
(***************************************************************************)
(* PD-StartGate: the loop() state machine of PD-StartGate.ino and its      *)
(* cooperative dwell, as a state machine.                                  *)
(*                                                                         *)
(* One call of loop() is cut at the places where it reads the millisecond  *)
(* clock: Switch (the switch statement), StartDwell (time_last = millis()),*)
(* Poll (the test of the outer while and time_cur = millis()), CatchUp     *)
(* (one pass of the inner while, or its exit) and Off (the final           *)
(* digitalWrite and the return).                                           *)
(***************************************************************************)
EXTENDS Integers, Sequences, FiniteSets, TLC

\* ------------------------------------------------------------ constants
LOW == 0
HIGH == 1

DEBOUNCE_MS == 20

S_WAIT_FOR_ENABLE == 1
S_WAIT_FOR_OPEN == 2
S_OPEN == 3
S_CLOSE == 4

SOLENOID_TIME_ON_MS == 500
SOLENOID_TIME_OFF_MS == 5000

\* setup() flashes the LED SETUP_FLASHES times, delay(SETUP_DELAY_MS) on and off
SETUP_FLASHES == 10
SETUP_DELAY_MS == 100

\* UINT16 is unsigned int, 16 bits on the Arduino Uno; UINT8 is unsigned char
UINT16_BITS == 16
UINT16_MOD == 2 ^ UINT16_BITS

\* ------------------------------------------------------------ bounds
\* the clock advances by at most MaxAdvance ticks between two reads of millis()
MaxAdvance == 2
\* the clock advances by at most MaxGap ticks between the last read of millis()
\* of one call of loop() and the first read of the next call
MaxGap == 1
\* loop() is entered at most MaxIter times in a waiting state
MaxIter == 6

\* ------------------------------------------------------------ state
VARIABLES
    state,       \* static UINT8 state
    delay_ms,    \* UINT16 delay_ms
    time_cur,    \* UINT16 time_cur
    time_last,   \* UINT16 time_last
    solenoid,    \* level of pin SOLENOID_EN
    led,         \* level of pin LED_DISABLE
    millis,      \* the millisecond clock as of its last read, modulo 2^16
    pc,          \* position inside loop()
    \* history of the current iteration, not read by the program
    cur,         \* the value of state the switch statement was entered with
    sw_disable,  \* level of pin SW_DISABLE when the switch statement ran;
                 \* kept until the dwell starts
    sw_open,     \* level of pin SW_OPEN when the switch statement ran;
                 \* kept until the dwell starts
    dwell,       \* the delay_ms the switch statement selected
    elapsed,     \* clock ticks since time_last = millis()
    decs,        \* decrements of delay_ms in this dwell
    iter,        \* calls of loop() so far
    cycle,       \* how many of the latest calls follow the cycle scenario;
                 \* back to 0 when the dwell of its fifth call starts
    disabled,    \* how many of the latest calls ran in S_WAIT_FOR_ENABLE
                 \* with SW_DISABLE pressed, one after the other
    held_fires,  \* calls in S_OPEN since digitalRead(SW_OPEN) last returned HIGH
    armed,       \* since the last call in S_OPEN: 1 after a call in
                 \* S_WAIT_FOR_ENABLE that read both switches released, 2 after
                 \* a later call in S_WAIT_FOR_OPEN that read SW_DISABLE
                 \* released and SW_OPEN pressed, 0 before
    cool         \* clock ticks since time_last = millis() of the latest call
                 \* in S_CLOSE, counted up to CoolCap; -1 before the first

vars == <<state, delay_ms, time_cur, time_last, solenoid, led, millis, pc,
          cur, sw_disable, sw_open, dwell, elapsed, decs, iter, cycle, disabled,
          held_fires, armed, cool>>

Levels == {LOW, HIGH}

\* ------------------------------------------------------------ switch (state)
\* SwitchState with the two tests of S_WAIT_FOR_OPEN in the other order
SwitchStateOpenFirst(s, d, o) ==
    CASE s = S_WAIT_FOR_ENABLE ->
            IF d # LOW /\ o # LOW THEN S_WAIT_FOR_OPEN ELSE s
      [] s = S_WAIT_FOR_OPEN ->
            IF o = LOW THEN S_OPEN
            ELSE IF d = LOW THEN S_WAIT_FOR_ENABLE
            ELSE s
      [] s = S_OPEN -> S_CLOSE
      [] s = S_CLOSE -> S_WAIT_FOR_ENABLE
      [] OTHER -> S_WAIT_FOR_ENABLE

\* SwitchState with S_WAIT_FOR_ENABLE testing SW_DISABLE alone
SwitchStateDisableOnly(s, d, o) ==
    CASE s = S_WAIT_FOR_ENABLE ->
            IF d # LOW THEN S_WAIT_FOR_OPEN ELSE s
      [] s = S_WAIT_FOR_OPEN ->
            IF d = LOW THEN S_WAIT_FOR_ENABLE
            ELSE IF o = LOW THEN S_OPEN
            ELSE s
      [] s = S_OPEN -> S_CLOSE
      [] s = S_CLOSE -> S_WAIT_FOR_ENABLE
      [] OTHER -> S_WAIT_FOR_ENABLE

\* SwitchState with || for && in S_WAIT_FOR_ENABLE
SwitchStateEitherClear(s, d, o) ==
    CASE s = S_WAIT_FOR_ENABLE ->
            IF d # LOW \/ o # LOW THEN S_WAIT_FOR_OPEN ELSE s
      [] s = S_WAIT_FOR_OPEN ->
            IF d = LOW THEN S_WAIT_FOR_ENABLE
            ELSE IF o = LOW THEN S_OPEN
            ELSE s
      [] s = S_OPEN -> S_CLOSE
      [] s = S_CLOSE -> S_WAIT_FOR_ENABLE
      [] OTHER -> S_WAIT_FOR_ENABLE

\* SwitchState with a default branch that leaves state as it is
SwitchStateNoReset(s, d, o) ==
    CASE s = S_WAIT_FOR_ENABLE ->
            IF d # LOW /\ o # LOW THEN S_WAIT_FOR_OPEN ELSE s
      [] s = S_WAIT_FOR_OPEN ->
            IF d = LOW THEN S_WAIT_FOR_ENABLE
            ELSE IF o = LOW THEN S_OPEN
            ELSE s
      [] s = S_OPEN -> S_CLOSE
      [] s = S_CLOSE -> S_WAIT_FOR_ENABLE
      [] OTHER -> s

\* SwitchState with S_CLOSE stepping to the next number
SwitchStateOverrun(s, d, o) ==
    CASE s = S_WAIT_FOR_ENABLE ->
            IF d # LOW /\ o # LOW THEN S_WAIT_FOR_OPEN ELSE s
      [] s = S_WAIT_FOR_OPEN ->
            IF d = LOW THEN S_WAIT_FOR_ENABLE
            ELSE IF o = LOW THEN S_OPEN
            ELSE s
      [] s = S_OPEN -> S_CLOSE
      [] s = S_CLOSE -> S_CLOSE + 1
      [] OTHER -> S_WAIT_FOR_ENABLE

\* SwitchState with S_CLOSE going back to S_WAIT_FOR_OPEN
SwitchStateCloseArmed(s, d, o) ==
    CASE s = S_WAIT_FOR_ENABLE ->
            IF d # LOW /\ o # LOW THEN S_WAIT_FOR_OPEN ELSE s
      [] s = S_WAIT_FOR_OPEN ->
            IF d = LOW THEN S_WAIT_FOR_ENABLE
            ELSE IF o = LOW THEN S_OPEN
            ELSE s
      [] s = S_OPEN -> S_CLOSE
      [] s = S_CLOSE -> S_WAIT_FOR_OPEN
      [] OTHER -> S_WAIT_FOR_ENABLE

\* the value of state after the switch statement
SwitchState(s, d, o) ==
    CASE s = S_WAIT_FOR_ENABLE ->
            IF d # LOW /\ o # LOW THEN S_WAIT_FOR_OPEN ELSE s
      [] s = S_WAIT_FOR_OPEN ->
            IF d = LOW THEN S_WAIT_FOR_ENABLE
            ELSE IF o = LOW THEN S_OPEN
            ELSE s
      [] s = S_OPEN -> S_CLOSE
      [] s = S_CLOSE -> S_WAIT_FOR_ENABLE
      [] OTHER -> S_WAIT_FOR_ENABLE

\* SwitchSolenoid with S_CLOSE writing HIGH as S_OPEN does
SwitchSolenoidHeld(s) ==
    IF s = S_OPEN \/ s = S_CLOSE THEN HIGH ELSE LOW

\* SwitchSolenoid with S_OPEN writing LOW as every other state does
SwitchSolenoidLow(s) == LOW

\* the level the switch statement writes to SOLENOID_EN
SwitchSolenoid(s) ==
    IF s = S_OPEN THEN HIGH ELSE LOW

\* SwitchLed with S_CLOSE writing LOW
SwitchLedCloseOff(s, l) ==
    CASE s = S_WAIT_FOR_ENABLE -> HIGH
      [] s = S_WAIT_FOR_OPEN -> LOW
      [] s = S_OPEN -> HIGH
      [] s = S_CLOSE -> LOW
      [] OTHER -> l

\* SwitchLed with S_WAIT_FOR_ENABLE leaving the LED as it is
SwitchLedEnableUnwritten(s, l) ==
    CASE s = S_WAIT_FOR_ENABLE -> l
      [] s = S_WAIT_FOR_OPEN -> LOW
      [] s = S_OPEN -> HIGH
      [] OTHER -> l

\* the level of LED_DISABLE after the switch statement (l: the level before)
SwitchLed(s, l) ==
    CASE s = S_WAIT_FOR_ENABLE -> HIGH
      [] s = S_WAIT_FOR_OPEN -> LOW
      [] s = S_OPEN -> HIGH
      [] OTHER -> l

\* SwitchDelay with the on and off times the other way round
SwitchDelaySwapped(s) ==
    CASE s = S_WAIT_FOR_ENABLE -> DEBOUNCE_MS
      [] s = S_WAIT_FOR_OPEN -> DEBOUNCE_MS
      [] s = S_OPEN -> SOLENOID_TIME_OFF_MS
      [] s = S_CLOSE -> SOLENOID_TIME_ON_MS
      [] OTHER -> DEBOUNCE_MS

\* SwitchDelay with a cool-down of twice the on time
SwitchDelayShortCool(s) ==
    CASE s = S_WAIT_FOR_ENABLE -> DEBOUNCE_MS
      [] s = S_WAIT_FOR_OPEN -> DEBOUNCE_MS
      [] s = S_OPEN -> SOLENOID_TIME_ON_MS
      [] s = S_CLOSE -> SOLENOID_TIME_ON_MS + SOLENOID_TIME_ON_MS
      [] OTHER -> DEBOUNCE_MS

\* the delay_ms the switch statement selects
SwitchDelay(s) ==
    CASE s = S_WAIT_FOR_ENABLE -> DEBOUNCE_MS
      [] s = S_WAIT_FOR_OPEN -> DEBOUNCE_MS
      [] s = S_OPEN -> SOLENOID_TIME_ON_MS
      [] s = S_CLOSE -> SOLENOID_TIME_OFF_MS
      [] OTHER -> DEBOUNCE_MS

\* ------------------------------------------------------------ dwell helpers
\* millis() read after the clock advanced by a ticks, truncated to UINT16
ReadMillis(m, a) == (m + a) % UINT16_MOD

\* delay_ms--; without the test, on a UINT16
DecrementUnguarded(d) == (d - 1) % UINT16_MOD

\* if (delay_ms) delay_ms--;
Decrement(d) == IF d # 0 THEN d - 1 ELSE d

\* time_last++ that leaves time_last as it is
IncrementStuck(t) == t

\* time_last++ on a variable wider than UINT16
IncrementWide(t) == t + 1

\* time_last++ on a UINT16
Increment(t) == (t + 1) % UINT16_MOD

\* ------------------------------------------------------------ history
\* The cycle scenario: a call in S_WAIT_FOR_ENABLE with both switches released,
\* a call with both released, a call with SW_DISABLE released and SW_OPEN
\* pressed, and two more calls with the switches anywhere.  CycleStep(k, s, d, o)
\* is the number of the latest calls that follow it, after a call entered
\* in state s with the pins at d and o, when k calls followed it before.
CycleStep(k, s, d, o) ==
    CASE k = 1 /\ d = HIGH /\ o = HIGH -> 2
      [] k = 2 /\ d = HIGH /\ o = LOW -> 3
      [] k = 3 -> 4
      [] k = 4 -> 5
      [] OTHER -> IF s = S_WAIT_FOR_ENABLE /\ d = HIGH /\ o = HIGH THEN 1 ELSE 0

\* the switch statement, entered in state s with SW_DISABLE at d, calls
\* digitalRead(SW_OPEN): lines 135 and 145 read it only after SW_DISABLE read HIGH
OpenRead(s, d) ==
    s \in {S_WAIT_FOR_ENABLE, S_WAIT_FOR_OPEN} /\ d = HIGH

\* held_fires after a call entered in state s with the pins at d and o
HeldStep(h, s, d, o) ==
    IF OpenRead(s, d) /\ o = HIGH THEN 0
    ELSE IF s = S_OPEN THEN h + 1
    ELSE h

\* armed after a call entered in state s with the pins at d and o
ArmStep(k, s, d, o) ==
    IF s = S_OPEN THEN 0
    ELSE IF k = 0 /\ s = S_WAIT_FOR_ENABLE /\ d = HIGH /\ o = HIGH THEN 1
    ELSE IF k = 1 /\ s = S_WAIT_FOR_OPEN /\ d = HIGH /\ o = LOW THEN 2
    ELSE k

\* the least clock advance from the start of the S_CLOSE dwell to the next
\* pulse: the cool-down dwell and two debounce dwells
CoolCap == SOLENOID_TIME_OFF_MS + DEBOUNCE_MS + DEBOUNCE_MS

\* cool after a read of millis() that found the clock advanced by a ticks
CoolStep(c, a) ==
    IF c < 0 THEN c
    ELSE IF c + a > CoolCap THEN CoolCap
    ELSE c + a

\* ------------------------------------------------------------ Init
\* after setup(): the LED flashed SETUP_FLASHES times and was left LOW, the
\* solenoid pin is an output that was never written (LOW), the locals of loop()
\* do not exist yet (0 stands for "not live")
Init ==
    /\ state = S_WAIT_FOR_ENABLE
    /\ delay_ms = 0
    /\ time_cur = 0
    /\ time_last = 0
    /\ solenoid = LOW
    /\ led = LOW
    /\ millis = (SETUP_FLASHES * (SETUP_DELAY_MS + SETUP_DELAY_MS)) % UINT16_MOD
    /\ pc = "switch"
    /\ cur = S_WAIT_FOR_ENABLE
    /\ sw_disable = HIGH
    /\ sw_open = HIGH
    /\ dwell = 0
    /\ elapsed = 0
    /\ decs = 0
    /\ iter = 0
    /\ cycle = 0
    /\ disabled = 0
    /\ held_fires = 0
    /\ armed = 0
    /\ cool = -1

\* values of the UINT8 state that are none of the four states
CorruptStates == {0, S_CLOSE + 1, 2 ^ 8 - 1}

\* loop() entered with state holding none of the four states (no run from
\* Init gets there: this is the case the default branch is written for), with
\* two calls in the waiting states left under MaxIter
InitCorrupt ==
    /\ state \in CorruptStates
    /\ delay_ms = 0
    /\ time_cur = 0
    /\ time_last = 0
    /\ solenoid = LOW
    /\ led \in Levels
    /\ millis = (SETUP_FLASHES * (SETUP_DELAY_MS + SETUP_DELAY_MS)) % UINT16_MOD
    /\ pc = "switch"
    /\ cur = S_WAIT_FOR_ENABLE
    /\ sw_disable = HIGH
    /\ sw_open = HIGH
    /\ dwell = 0
    /\ elapsed = 0
    /\ decs = 0
    /\ iter = MaxIter - 2
    /\ cycle = 0
    /\ disabled = 0
    /\ held_fires = 0
    /\ armed = 0
    /\ cool = -1

\* readings of the clock shortly before it wraps from 2^16 - 1 to 0: the wrap
\* falls in the first or the second debounce dwell, in the pulse or in the
\* cool-down
LateStarts ==
    { UINT16_MOD - 1,
      UINT16_MOD - DEBOUNCE_MS,
      UINT16_MOD - (DEBOUNCE_MS + DEBOUNCE_MS \div 2),
      UINT16_MOD - SOLENOID_TIME_ON_MS \div 2,
      UINT16_MOD - SOLENOID_TIME_OFF_MS \div 2 }

\* loop() about to be entered after the gate has idled in S_WAIT_FOR_ENABLE
\* for about a minute: the LED is lit, the last dwell was a debounce dwell,
\* the clock reads one of starts, and two calls in the waiting states are
\* left under MaxIter
InitIdle(starts) ==
    /\ state = S_WAIT_FOR_ENABLE
    /\ delay_ms = 0
    /\ time_cur = 0
    /\ time_last = 0
    /\ solenoid = LOW
    /\ led = HIGH
    /\ millis \in starts
    /\ pc = "switch"
    /\ cur = S_WAIT_FOR_ENABLE
    /\ sw_disable = HIGH
    /\ sw_open = HIGH
    /\ dwell = DEBOUNCE_MS
    /\ elapsed = DEBOUNCE_MS
    /\ decs = DEBOUNCE_MS
    /\ iter = MaxIter - 2
    /\ cycle = 0
    /\ disabled = 0
    /\ held_fires = 0
    /\ armed = 0
    /\ cool = -1

\* the idle gate with the clock to wrap in the second debounce dwell
InitLate == InitIdle({UINT16_MOD - (DEBOUNCE_MS + DEBOUNCE_MS \div 2)})

\* the idle gate with the clock at any of LateStarts
InitWrap == InitIdle(LateStarts)

\* ------------------------------------------------------------ actions
\* loop() may be entered: the bound applies to the waiting states only, so a
\* pulse that has started always runs through S_OPEN and S_CLOSE
MayEnter ==
    state \in {S_WAIT_FOR_ENABLE, S_WAIT_FOR_OPEN} => iter < MaxIter

\* lines 130-173: the switch statement, with the pins at levels d and o
Switch ==
    /\ pc = "switch"
    /\ MayEnter
    /\ \E d \in Levels, o \in Levels :
          /\ state' = SwitchState(state, d, o)
          /\ sw_disable' = d
          /\ sw_open' = o
          /\ cycle' = CycleStep(cycle, state, d, o)
          /\ disabled' = IF state = S_WAIT_FOR_ENABLE /\ d = LOW
                         THEN disabled + 1 ELSE 0
          /\ held_fires' = HeldStep(held_fires, state, d, o)
          /\ armed' = ArmStep(armed, state, d, o)
    /\ solenoid' = SwitchSolenoid(state)
    /\ led' = SwitchLed(state, led)
    /\ delay_ms' = SwitchDelay(state)
    /\ dwell' = SwitchDelay(state)
    /\ cur' = state
    /\ iter' = iter + 1
    /\ pc' = "start"
    /\ UNCHANGED <<time_cur, time_last, millis, elapsed, decs, cool>>

\* the dwell entered without line 177: time_last keeps the value it had
StartDwellStale ==
    /\ pc = "start"
    /\ elapsed' = 0
    /\ decs' = 0
    /\ sw_disable' = HIGH
    /\ sw_open' = HIGH
    /\ cycle' = IF cycle = 5 THEN 0 ELSE cycle
    /\ pc' = "while"
    /\ UNCHANGED <<state, delay_ms, time_cur, time_last, millis, solenoid, led,
                   cur, dwell, iter, disabled, held_fires, armed, cool>>

\* line 177: time_last = millis();
StartDwell ==
    /\ pc = "start"
    /\ \E a \in 0..MaxGap :
          /\ millis' = ReadMillis(millis, a)
          /\ time_last' = ReadMillis(millis, a)
          /\ cool' = IF cur = S_CLOSE THEN 0 ELSE CoolStep(cool, a)
    /\ elapsed' = 0
    /\ decs' = 0
    /\ sw_disable' = HIGH
    /\ sw_open' = HIGH
    /\ cycle' = IF cycle = 5 THEN 0 ELSE cycle
    /\ pc' = "while"
    /\ UNCHANGED <<state, delay_ms, time_cur, solenoid, led, cur, dwell, iter,
                   disabled, held_fires, armed>>

\* the outer while testing delay_ms > 1
PollOffByOne ==
    /\ pc = "while"
    /\ IF delay_ms > 1
       THEN /\ \E a \in 0..MaxAdvance :
                  /\ millis' = ReadMillis(millis, a)
                  /\ time_cur' = ReadMillis(millis, a)
                  /\ elapsed' = elapsed + a
                  /\ cool' = CoolStep(cool, a)
            /\ pc' = "catchup"
       ELSE /\ pc' = "off"
            /\ UNCHANGED <<millis, time_cur, elapsed, cool>>
    /\ UNCHANGED <<state, delay_ms, time_last, solenoid, led,
                   cur, sw_disable, sw_open, dwell, decs, iter, cycle, disabled,
                   held_fires, armed>>

\* lines 178-190: while (delay_ms) { ... time_cur = millis();
Poll ==
    /\ pc = "while"
    /\ IF delay_ms # 0
       THEN /\ \E a \in 0..MaxAdvance :
                  /\ millis' = ReadMillis(millis, a)
                  /\ time_cur' = ReadMillis(millis, a)
                  /\ elapsed' = elapsed + a
                  /\ cool' = CoolStep(cool, a)
            /\ pc' = "catchup"
       ELSE /\ pc' = "off"
            /\ UNCHANGED <<millis, time_cur, elapsed, cool>>
    /\ UNCHANGED <<state, delay_ms, time_last, solenoid, led,
                   cur, sw_disable, sw_open, dwell, decs, iter, cycle, disabled,
                   held_fires, armed>>

\* lines 191-195: one test of while (time_last != time_cur) and its body
CatchUp ==
    /\ pc = "catchup"
    /\ IF time_last # time_cur
       THEN /\ delay_ms' = Decrement(delay_ms)
            /\ decs' = IF delay_ms' # delay_ms THEN decs + 1 ELSE decs
            /\ time_last' = Increment(time_last)
            /\ pc' = "catchup"
       ELSE /\ pc' = "while"
            /\ UNCHANGED <<delay_ms, decs, time_last>>
    /\ UNCHANGED <<state, time_cur, solenoid, led, millis,
                   cur, sw_disable, sw_open, dwell, elapsed, iter, cycle, disabled,
                   held_fires, armed, cool>>

\* the return of loop() without the final digitalWrite
OffNoWrite ==
    /\ pc = "off"
    /\ delay_ms' = 0
    /\ time_cur' = 0
    /\ time_last' = 0
    /\ pc' = "switch"
    /\ UNCHANGED <<state, solenoid, led, millis, cur, sw_disable, sw_open, dwell,
                   elapsed, decs, iter, cycle, disabled,
                   held_fires, armed, cool>>

\* lines 198-200: digitalWrite(SOLENOID_EN, LOW); and the return of loop(),
\* which ends the life of delay_ms, time_cur and time_last
Off ==
    /\ pc = "off"
    /\ solenoid' = LOW
    /\ delay_ms' = 0
    /\ time_cur' = 0
    /\ time_last' = 0
    /\ pc' = "switch"
    /\ UNCHANGED <<state, led, millis, cur, sw_disable, sw_open, dwell,
                   elapsed, decs, iter, cycle, disabled,
                   held_fires, armed, cool>>

Next == Switch \/ StartDwell \/ Poll \/ CatchUp \/ Off

Spec == Init /\ [][Next]_vars

\* a pass of the outer while that finds the clock advanced
PollAdvance == Poll /\ millis' # millis

\* the runtime calls loop() again and again, the processor keeps executing,
\* and the millisecond clock keeps advancing: again and again a read of
\* millis() in the outer while finds a new value
Fairness ==
    /\ WF_vars(Switch)
    /\ WF_vars(StartDwell)
    /\ WF_vars(Poll)
    /\ SF_vars(PollAdvance)
    /\ WF_vars(CatchUp)
    /\ WF_vars(Off)

\* loop() from an idle gate with the clock about to wrap, under Fairness
SpecLate == InitLate /\ [][Next]_vars /\ Fairness

\* loop() from an idle gate, the clock wrapping in any of the dwells
SpecWrap == InitWrap /\ [][Next]_vars

\* the same loop(), entered with a state that is none of the four
SpecCorrupt == InitCorrupt /\ [][Next]_vars

TypeOK ==
    /\ state \in 1..4
    /\ delay_ms \in 0..(UINT16_MOD - 1)
    /\ time_cur \in 0..(UINT16_MOD - 1)
    /\ time_last \in 0..(UINT16_MOD - 1)
    /\ millis \in 0..(UINT16_MOD - 1)
    /\ solenoid \in Levels
    /\ led \in Levels
    /\ pc \in {"switch", "start", "while", "catchup", "off"}

\* ============================================================ claims
\* both switches are active low: pressed (asserted) reads LOW
disableAsserted == sw_disable = LOW
openAsserted == sw_open = LOW

\* the switch statement has just run in this call of loop()
Stepped == pc = "start"

\* the dwell of this call is running
InDwell == pc \in {"while", "catchup"}

\* the transition table, as the specification prints it
TableNext(s, dis, opn) ==
    CASE s = S_WAIT_FOR_ENABLE -> IF ~dis /\ ~opn THEN S_WAIT_FOR_OPEN ELSE S_WAIT_FOR_ENABLE
      [] s = S_WAIT_FOR_OPEN -> IF dis THEN S_WAIT_FOR_ENABLE
                                ELSE IF opn THEN S_OPEN ELSE S_WAIT_FOR_OPEN
      [] s = S_OPEN -> S_CLOSE
      [] s = S_CLOSE -> S_WAIT_FOR_ENABLE

TableActuator(s) ==
    CASE s = S_WAIT_FOR_ENABLE -> LOW
      [] s = S_WAIT_FOR_OPEN -> LOW
      [] s = S_OPEN -> HIGH
      [] s = S_CLOSE -> LOW

TableIndicator(s, before) ==
    CASE s = S_WAIT_FOR_ENABLE -> HIGH
      [] s = S_WAIT_FOR_OPEN -> LOW
      [] s = S_OPEN -> HIGH
      [] s = S_CLOSE -> before

TableDwell(s) ==
    CASE s = S_WAIT_FOR_ENABLE -> 20
      [] s = S_WAIT_FOR_OPEN -> 20
      [] s = S_OPEN -> 500
      [] s = S_CLOSE -> 5000

\* C1: every run of the switch statement, in each of the four states and with
\* the two switches in any position, gives the next state, the solenoid level,
\* the LED level and the dwell of the transition table (in S_CLOSE the LED
\* keeps the level it had).
C1_TransitionTable ==
    [][(pc = "switch" /\ pc' = "start") =>
          /\ state \in {S_WAIT_FOR_ENABLE, S_WAIT_FOR_OPEN, S_OPEN, S_CLOSE}
          /\ state' = TableNext(state, disableAsserted', openAsserted')
          /\ solenoid' = TableActuator(state)
          /\ led' = TableIndicator(state, led)
          /\ delay_ms' = TableDwell(state)]_vars

\* the S_CLOSE row has been taken with the LED lit before and after
C1_Witness ==
    /\ Stepped
    /\ cur = S_CLOSE
    /\ state = S_WAIT_FOR_ENABLE
    /\ solenoid = LOW
    /\ led = HIGH
    /\ delay_ms = 5000

\* C2: fail-safe: the level the switch statement writes to the solenoid is
\* HIGH exactly when it was entered in S_OPEN, with the switches in any
\* position; for every other value of the UINT8 state, the default branch
\* included, it writes LOW.
C2_FailSafe ==
    Stepped =>
        /\ (solenoid = HIGH) <=> (cur = S_OPEN)
        /\ \A s \in 0..255 : (SwitchSolenoid(s) = HIGH) <=> (s = S_OPEN)

\* a call in S_OPEN with SW_DISABLE pressed still energizes the solenoid
C2_Witness ==
    /\ Stepped
    /\ cur = S_OPEN
    /\ disableAsserted
    /\ solenoid = HIGH

\* C3: the solenoid is energized only in the dwell that follows a call entered
\* in S_OPEN: where loop() starts and samples the switches, and all through a
\* DEBOUNCE_MS or SOLENOID_TIME_OFF_MS dwell, the solenoid is LOW.
C3_EnergizedOnlyInOpenDwell ==
    /\ solenoid = HIGH =>
          /\ cur = S_OPEN
          /\ dwell = SOLENOID_TIME_ON_MS
          /\ pc \in {"start", "while", "catchup", "off"}
    /\ pc = "switch" => solenoid = LOW
    /\ (pc # "switch" /\ dwell \in {DEBOUNCE_MS, SOLENOID_TIME_OFF_MS}) => solenoid = LOW

\* the solenoid is on in the middle of the pulse
C3_Witness ==
    /\ pc = "catchup"
    /\ solenoid = HIGH
    /\ delay_ms = 250

\* C4: safety tie-break: a call in S_WAIT_FOR_OPEN with both switches pressed
\* goes to S_WAIT_FOR_ENABLE, and no call that samples SW_DISABLE pressed ends
\* with state = S_OPEN.
C4_DisableWins ==
    (Stepped /\ disableAsserted) =>
        /\ state # S_OPEN
        /\ (cur = S_WAIT_FOR_OPEN /\ openAsserted) => state = S_WAIT_FOR_ENABLE

\* both switches pressed in S_WAIT_FOR_OPEN
C4_Witness ==
    /\ Stepped
    /\ cur = S_WAIT_FOR_OPEN
    /\ disableAsserted
    /\ openAsserted
    /\ state = S_WAIT_FOR_ENABLE

\* C5: re-arm requirement: a call in S_WAIT_FOR_ENABLE with SW_DISABLE
\* released and SW_OPEN still pressed stays in S_WAIT_FOR_ENABLE; the state
\* leaves S_WAIT_FOR_ENABLE only on a sample with both switches released.
C5_ReArm ==
    (Stepped /\ cur = S_WAIT_FOR_ENABLE) =>
        /\ (~disableAsserted /\ openAsserted) => state = S_WAIT_FOR_ENABLE
        /\ state # S_WAIT_FOR_ENABLE => (~disableAsserted /\ ~openAsserted)

\* SW_OPEN is held while SW_DISABLE is released, in a later call than the first
C5_Witness ==
    /\ Stepped
    /\ cur = S_WAIT_FOR_ENABLE
    /\ ~disableAsserted
    /\ openAsserted
    /\ state = S_WAIT_FOR_ENABLE
    /\ iter > 1

\* C6 as claimed: in the cycle scenario the third call (SW_OPEN pressed) gives
\* S_OPEN with the solenoid HIGH and a dwell of 500, the fourth S_CLOSE with
\* the solenoid LOW and a dwell of 5000, the fifth S_WAIT_FOR_ENABLE.
C6_AsClaimed ==
    Stepped =>
        /\ cycle = 1 => state = S_WAIT_FOR_OPEN
        /\ cycle = 2 => state = S_WAIT_FOR_OPEN
        /\ cycle = 3 => (state = S_OPEN /\ solenoid = HIGH /\ delay_ms = 500)
        /\ cycle = 4 => (state = S_CLOSE /\ solenoid = LOW /\ delay_ms = 5000)
        /\ cycle = 5 => state = S_WAIT_FOR_ENABLE

\* C6: the cycle scenario, with each call's outputs being those of the state it
\* was entered in: the first call gives S_WAIT_FOR_OPEN, the second leaves it,
\* the third (SW_OPEN pressed) gives S_OPEN with the solenoid LOW and a dwell
\* of 20, the fourth gives S_CLOSE with the solenoid HIGH and a dwell of 500,
\* the fifth gives S_WAIT_FOR_ENABLE with the solenoid LOW and a dwell of 5000.
C6_CycleScenario ==
    Stepped =>
        /\ cycle = 1 => (cur = S_WAIT_FOR_ENABLE /\ state = S_WAIT_FOR_OPEN)
        /\ cycle = 2 => (cur = S_WAIT_FOR_OPEN /\ state = S_WAIT_FOR_OPEN)
        /\ cycle = 3 => (state = S_OPEN /\ solenoid = LOW /\ delay_ms = 20)
        /\ cycle = 4 => (state = S_CLOSE /\ solenoid = HIGH /\ delay_ms = 500)
        /\ cycle = 5 => (state = S_WAIT_FOR_ENABLE /\ solenoid = LOW /\ delay_ms = 5000)

\* the scenario has run to its fifth call, with SW_OPEN still held at the end
C6_Witness ==
    /\ Stepped
    /\ cycle = 5
    /\ openAsserted
    /\ state = S_WAIT_FOR_ENABLE

Min(a, b) == IF a < b THEN a ELSE b

\* ticks the clock has advanced that the inner while has not counted yet
Lag == IF pc = "catchup" THEN (time_cur - time_last) % UINT16_MOD ELSE 0

\* C7: dwell accounting: all through a dwell of D = dwell ms the remaining
\* count is D minus the decrements made, the decrements made are one for each
\* clock tick counted so far and never more than D, the remaining count stays
\* within 0..D, and the dwell ends with D decrements and a remaining count of
\* 0, after the clock advanced by N >= D ticks.
C7_DwellAccounting ==
    (InDwell \/ pc = "off") =>
        /\ delay_ms \in 0..dwell
        /\ delay_ms = dwell - decs
        /\ decs = Min(dwell, elapsed - Lag)
        /\ pc = "off" => (delay_ms = 0 /\ decs = dwell /\ elapsed >= dwell)

\* a pulse dwell has ended after the clock advanced by more ticks than asked
C7_Witness ==
    /\ pc = "off"
    /\ dwell = SOLENOID_TIME_ON_MS
    /\ elapsed > dwell
    /\ decs = dwell
    /\ delay_ms = 0

\* C8: dwell lower bound: the outer while is left exactly when the clock has
\* advanced by at least D = dwell ticks since time_last = millis(): at each
\* test of the outer while the remaining count is 0 if and only if the
\* advance has reached D, and loop() is at its final write, or back at the
\* switch statement, only after that.
C8_DwellLowerBound ==
    /\ pc = "while" => ((delay_ms = 0) <=> (elapsed >= dwell))
    /\ pc = "catchup" => elapsed - Lag < dwell \/ delay_ms = 0
    /\ pc = "off" => elapsed >= dwell
    /\ (pc = "switch" /\ iter > 0) => elapsed >= dwell

\* the cool-down dwell has ended and the switches are about to be sampled
C8_Witness ==
    /\ pc = "switch"
    /\ cur = S_CLOSE
    /\ dwell = SOLENOID_TIME_OFF_MS
    /\ elapsed >= dwell

\* C9: ordering within one call of loop(): from the end of the switch
\* statement to the end of the dwell the solenoid and the LED are at the
\* levels the switch statement wrote, in S_OPEN too; the final write comes
\* when the dwell has run out; and the switches are next sampled with the
\* solenoid forced LOW.
C9_Ordering ==
    /\ (Stepped \/ InDwell \/ pc = "off") =>
          /\ solenoid = TableActuator(cur)
          /\ cur # S_CLOSE => led = TableIndicator(cur, led)
    /\ pc = "off" => (delay_ms = 0 /\ elapsed >= dwell)
    /\ pc = "switch" => (solenoid = LOW /\ delay_ms = 0)
    /\ (pc = "switch" /\ iter > 0) => elapsed >= dwell

\* the pulse dwell has run out with the solenoid still on: the final write is next
C9_Witness ==
    /\ pc = "off"
    /\ cur = S_OPEN
    /\ solenoid = HIGH
    /\ delay_ms = 0

\* C10: idempotence of disable: each of any number of calls in a row made in
\* S_WAIT_FOR_ENABLE with SW_DISABLE pressed, SW_OPEN in either position,
\* gives S_WAIT_FOR_ENABLE, solenoid LOW, LED HIGH and a dwell of DEBOUNCE_MS:
\* the same after the k-th call as after the first.
C10_DisableIdempotent ==
    (Stepped /\ disabled >= 1) =>
        /\ cur = S_WAIT_FOR_ENABLE
        /\ state = S_WAIT_FOR_ENABLE
        /\ solenoid = LOW
        /\ led = HIGH
        /\ delay_ms = DEBOUNCE_MS

\* the third such call in a row, this one with SW_OPEN pressed as well
C10_Witness ==
    /\ Stepped
    /\ disabled = 3
    /\ disableAsserted
    /\ openAsserted
    /\ state = S_WAIT_FOR_ENABLE

\* C11 (under SpecCorrupt): fail-safe reset: a call entered with state holding
\* none of the four states sets state to S_WAIT_FOR_ENABLE, writes the
\* solenoid LOW and selects a dwell of DEBOUNCE_MS, with the switches in any
\* position and without reading SW_OPEN, and goes on to its dwell; the call
\* after it is an ordinary call in S_WAIT_FOR_ENABLE.
C11_FailSafeReset ==
    /\ (Stepped /\ iter = MaxIter - 1) =>
          /\ cur \notin {S_WAIT_FOR_ENABLE, S_WAIT_FOR_OPEN, S_OPEN, S_CLOSE}
          /\ state = S_WAIT_FOR_ENABLE
          /\ solenoid = LOW
          /\ delay_ms = DEBOUNCE_MS
          /\ ~OpenRead(cur, sw_disable)
    /\ (Stepped /\ iter = MaxIter) =>
          /\ cur = S_WAIT_FOR_ENABLE
          /\ state = TableNext(cur, disableAsserted, openAsserted)
          /\ solenoid = LOW
          /\ led = HIGH
          /\ delay_ms = DEBOUNCE_MS
    /\ iter >= MaxIter - 1 =>
          state \in {S_WAIT_FOR_ENABLE, S_WAIT_FOR_OPEN, S_OPEN, S_CLOSE}

\* the call after the reset, with both switches released, has armed the gate
C11_Witness ==
    /\ Stepped
    /\ iter = MaxIter
    /\ cur = S_WAIT_FOR_ENABLE
    /\ state = S_WAIT_FOR_OPEN
    /\ dwell = DEBOUNCE_MS

\* C12 as claimed: the LED is lit while the gate is disabled or in its pulse:
\* after every call that sampled SW_DISABLE pressed (the calls in
\* S_WAIT_FOR_ENABLE and S_WAIT_FOR_OPEN sample it) and after every call in
\* S_OPEN the LED is HIGH for the dwell, and once loop() has run the LED is
\* LOW only while state is S_WAIT_FOR_OPEN, where a press of SW_OPEN fires.
C12_AsClaimed ==
    /\ (Stepped /\ cur \in {S_WAIT_FOR_ENABLE, S_WAIT_FOR_OPEN} /\ disableAsserted) =>
          led = HIGH
    /\ (pc # "switch" /\ cur = S_OPEN) => led = HIGH
    /\ (iter > 0 /\ led = LOW) => state = S_WAIT_FOR_OPEN

\* the outputs of a call as a function of the state it is entered in and the
\* two switches alone: in S_CLOSE the LED is HIGH
StepResult(s, dis, opn) ==
    <<TableNext(s, dis, opn), TableActuator(s), TableIndicator(s, HIGH), TableDwell(s)>>

\* C13: the step is a function of the current state and the sampled inputs:
\* in every run, after every call, the next state, the solenoid level, the
\* LED level and the dwell are given by one table over (state, SW_DISABLE,
\* SW_OPEN), whatever happened before; in S_OPEN and S_CLOSE the table does
\* not look at the switches, and in S_CLOSE, which does not write the LED,
\* the LED is HIGH in every run.
C13_StepIsFunction ==
    Stepped =>
        /\ <<state, solenoid, led, delay_ms>> = StepResult(cur, disableAsserted, openAsserted)
        /\ cur \in {S_OPEN, S_CLOSE} =>
              \A dis \in BOOLEAN, opn \in BOOLEAN :
                  <<state, solenoid, led, delay_ms>> = StepResult(cur, dis, opn)

\* the S_CLOSE call of a second pulse, SW_DISABLE pressed meanwhile
C13_Witness ==
    /\ Stepped
    /\ cur = S_CLOSE
    /\ disableAsserted
    /\ led = HIGH
    /\ cool = CoolCap

\* C14: duty cycle: ten times the on time is at most the on time plus the
\* cool-down time (on / (on + off) <= 10%), for the constants and for the
\* dwells the calls in S_OPEN and S_CLOSE select.
C14_DutyCycle ==
    /\ 10 * SOLENOID_TIME_ON_MS <= SOLENOID_TIME_ON_MS + SOLENOID_TIME_OFF_MS
    /\ (Stepped /\ cur = S_OPEN) =>
          /\ delay_ms = SOLENOID_TIME_ON_MS
          /\ 10 * delay_ms <= delay_ms + SwitchDelay(S_CLOSE)
    /\ (Stepped /\ cur = S_CLOSE) =>
          /\ delay_ms = SOLENOID_TIME_OFF_MS
          /\ 10 * SwitchDelay(S_OPEN) <= SwitchDelay(S_OPEN) + delay_ms

\* the cool-down is selected after a pulse that lasted its on time
C14_Witness ==
    /\ Stepped
    /\ cur = S_CLOSE
    /\ delay_ms = SOLENOID_TIME_OFF_MS
    /\ elapsed >= SOLENOID_TIME_ON_MS
    /\ solenoid = LOW

\* a call in S_WAIT_FOR_OPEN has just sampled SW_DISABLE released and SW_OPEN pressed
OpenPressed ==
    Stepped /\ cur = S_WAIT_FOR_OPEN /\ ~disableAsserted /\ openAsserted

\* C15 (under SpecLate): a call in S_WAIT_FOR_OPEN that samples SW_DISABLE
\* released and SW_OPEN pressed sets state to S_OPEN and selects one
\* DEBOUNCE_MS dwell; the call after that dwell writes the solenoid HIGH with
\* the switches in any position; and, the clock advancing, that call comes.
C15_OpenPressFires ==
    /\ [](OpenPressed => (state = S_OPEN /\ delay_ms = DEBOUNCE_MS))
    /\ []((state = S_OPEN /\ pc # "start") => (cur = S_WAIT_FOR_OPEN /\ dwell = DEBOUNCE_MS))
    /\ [][(pc = "switch" /\ state = S_OPEN /\ pc' = "start") =>
              (solenoid' = HIGH /\ elapsed >= DEBOUNCE_MS
                 /\ elapsed < DEBOUNCE_MS + MaxAdvance)]_vars
    /\ (OpenPressed ~> (solenoid = HIGH))

\* the pulse has started although SW_DISABLE was pressed after the sample
C15_Witness ==
    /\ Stepped
    /\ cur = S_OPEN
    /\ solenoid = HIGH
    /\ disableAsserted
    /\ ~openAsserted
    /\ armed = 0

\* C16: a held SW_OPEN cannot fire the gate again: since digitalRead(SW_OPEN)
\* last returned released there has been at most one call in S_OPEN, and a
\* call in S_OPEN comes only after, since the call in S_OPEN before it or
\* since startup, a call in S_WAIT_FOR_ENABLE sampled both switches released
\* and a later call in S_WAIT_FOR_OPEN sampled SW_DISABLE released and
\* SW_OPEN pressed.
C16_HeldOpenCannotFire ==
    /\ held_fires <= 1
    /\ state = S_OPEN => (armed = 2 /\ held_fires = 0)
    /\ (Stepped /\ cur = S_OPEN) => held_fires = 1

\* after a pulse SW_OPEN is still held, SW_DISABLE is released, and the gate
\* stays in S_WAIT_FOR_ENABLE
C16_Witness ==
    /\ Stepped
    /\ cur = S_WAIT_FOR_ENABLE
    /\ held_fires = 1
    /\ ~disableAsserted
    /\ openAsserted
    /\ state = S_WAIT_FOR_ENABLE

\* C17 (under SpecLate): no terminal state: loop() can always go on (within
\* MaxIter), every dwell ends and loop() returns, and every energization is
\* followed by the final write, then by the call in S_CLOSE, then by
\* S_WAIT_FOR_ENABLE, with the switches in any position.
C17_RunsForever ==
    /\ []((ENABLED Next) \/ (pc = "switch" /\ ~MayEnter))
    /\ ((pc # "switch") ~> (pc = "switch"))
    /\ ((solenoid = HIGH) ~> (pc = "switch" /\ solenoid = LOW /\ state = S_CLOSE))
    /\ ((pc = "switch" /\ state = S_CLOSE) ~>
           (Stepped /\ cur = S_CLOSE /\ state = S_WAIT_FOR_ENABLE))

\* back in S_WAIT_FOR_ENABLE after a whole pulse and cool-down
C17_Witness ==
    /\ pc = "switch"
    /\ state = S_WAIT_FOR_ENABLE
    /\ cur = S_CLOSE
    /\ solenoid = LOW
    /\ cool = SOLENOID_TIME_OFF_MS

\* C18: from the initial state, state is always one of the four states and
\* every call of loop() is entered in one of them: the default branch never runs.
C18_FourStates ==
    /\ state \in {S_WAIT_FOR_ENABLE, S_WAIT_FOR_OPEN, S_OPEN, S_CLOSE}
    /\ cur \in {S_WAIT_FOR_ENABLE, S_WAIT_FOR_OPEN, S_OPEN, S_CLOSE}

\* the second pulse is running
C18_Witness ==
    /\ pc = "catchup"
    /\ cur = S_OPEN
    /\ state = S_CLOSE
    /\ cool = CoolCap

\* C19: cool-down between pulses: when a call in S_OPEN energizes the solenoid
\* after an earlier pulse, the clock has advanced by at least
\* SOLENOID_TIME_OFF_MS + 2 * DEBOUNCE_MS ticks since the dwell of the call in
\* S_CLOSE began, which is after the final write that ended that pulse.
C19_CoolDown ==
    /\ (pc = "switch" /\ state = S_OPEN) =>
          (cool = -1 \/ cool >= SOLENOID_TIME_OFF_MS + 2 * DEBOUNCE_MS)
    /\ solenoid = HIGH => (cool = -1 \/ cool >= SOLENOID_TIME_OFF_MS + 2 * DEBOUNCE_MS)
    /\ (cur = S_CLOSE /\ pc # "start") => cool >= 0

\* the second pulse starts
C19_Witness ==
    /\ Stepped
    /\ cur = S_OPEN
    /\ solenoid = HIGH
    /\ cool >= SOLENOID_TIME_OFF_MS + 2 * DEBOUNCE_MS

\* C20 (under SpecWrap): clock wrap-around: time_cur and time_last are 16-bit
\* values, the inner while catches up with a reading that wrapped, and for
\* start readings within D ticks of the wrap the dwell still counts one
\* decrement per tick, ends with D decrements, not before the clock advanced
\* by D and at the first poll that sees it.
C20_WrapAround ==
    (InDwell \/ pc = "off") =>
        /\ time_last \in 0..(UINT16_MOD - 1)
        /\ time_cur \in 0..(UINT16_MOD - 1)
        /\ pc = "catchup" => (time_cur = millis /\ Lag <= MaxAdvance)
        /\ (pc = "while" /\ elapsed > 0) => (time_last = millis /\ time_cur = millis)
        /\ decs = Min(dwell, elapsed - Lag)
        /\ pc = "off" =>
              /\ decs = dwell
              /\ delay_ms = 0
              /\ elapsed >= dwell
              /\ elapsed < dwell + MaxAdvance

\* the cool-down dwell has ended after the clock wrapped inside it
C20_Witness ==
    /\ pc = "off"
    /\ dwell = SOLENOID_TIME_OFF_MS
    /\ millis < SOLENOID_TIME_OFF_MS
    /\ decs = SOLENOID_TIME_OFF_MS
====
